---- MODULE Spec2Model ----
(***************************************************************************)
(* Model of sphinxcontrib/sadisp.py: the sadisplay directive, the render   *)
(* pipeline (introspection, filtering, backend selection), the image       *)
(* renderer with its content-addressed cache, the two output visitors and  *)
(* the extension's setup.                                                  *)
(*                                                                         *)
(* Python values: None is the string None below; a str is a TLA+ string or *)
(* (where it is split and stripped) a sequence of one-character strings;   *)
(* a list is a sequence; an exception is a record naming its class.        *)
(***************************************************************************)
EXTENDS Integers, Sequences, FiniteSets, TLC

VARIABLES
    py,        \* major version of the interpreter running the build (2 or 3)
    files,     \* the filesystem: output path -> what the file holds
    ri,        \* the last call of render_image: arguments and outcome
    node,      \* the SaNode of the document being built
    config,    \* self.builder.config
    visit,     \* the last call of a visitor: body before, body after, outcome
    drun,      \* the last call of SadisplayDirective.run: options and outcome
    apps       \* the host applications: app -> registrations and setup calls

vars == <<py, files, ri, node, config, visit, drun, apps>>

None == "None"

\* Python truthiness of a str-or-None and of a list.
Truthy(v) == v # None /\ v # ""
TruthyList(l) == l # <<>>

----------------------------------------------------------------------------
(* generate_name: the content hash and the two paths                       *)

\* The digest is truncated to HashMod values; content is a sequence of byte
\* codes (the UTF-8 bytes of the diagram text).
HashMod == 65521

RECURSIVE Sha1From(_, _)
Sha1From(h, bytes) ==
    IF bytes = <<>> THEN h
    ELSE Sha1From((h * 31 + Head(bytes)) % HashMod, Tail(bytes))

sha1(bytes) == Sha1From(7, bytes)

\* The builders: the HTML builder has an imgpath, the LaTeX builder has none.
HtmlBuilder == [name |-> "html", imgpath |-> "_images", outdir |-> "build/html"]
LatexBuilder == [name |-> "latex", imgpath |-> None, outdir |-> "build/latex"]
Builders == {HtmlBuilder, LatexBuilder}

FName(content) == [prefix |-> "sadisplay-", key |-> sha1(content), ext |-> ".png"]

\* generate_name returns (refname, outfname).
generate_name(b, content) ==
    IF Truthy(b.imgpath)
    THEN [refname  |-> [dir |-> <<b.imgpath>>, fname |-> FName(content)],
          outfname |-> [dir |-> <<b.outdir, "_images">>, fname |-> FName(content)]]
    ELSE [refname  |-> [dir |-> <<>>, fname |-> FName(content)],
          outfname |-> [dir |-> <<b.outdir>>, fname |-> FName(content)]]

----------------------------------------------------------------------------
(* render_image                                                            *)

\* What the operating system and the external renderer do when launched:
\* Popen succeeds or raises OSError with an errno; the process exits with a
\* return code having written serr to its error stream.
ENOENT == "ENOENT"
EACCES == "EACCES"
Envs ==
    {[launch |-> ENOENT, returncode |-> 0, serr |-> ""],
     [launch |-> EACCES, returncode |-> 0, serr |-> ""],
     [launch |-> "ok", returncode |-> 0, serr |-> "warning"],
     [launch |-> "ok", returncode |-> 1, serr |-> "boom"]}

\* '%r' % command
Repr(command) == [repr |-> command]

\* An exception: its class and its message (the format, the %r arguments
\* and the text appended to it).
NoError == [class |-> None, fmt |-> "", args |-> <<>>, tail |-> ""]
NoRef == [dir |-> <<>>, fname |-> [prefix |-> "", key |-> 0, ext |-> ""]]

\* What a file holds: "partial" (opened for writing and left by a call that
\* raised: empty, or what a run that exited non-zero wrote) or "image" (the
\* output of a run that exited 0).
WriteFile(fs, path, what) == (path :> what) @@ fs

\* os.path.exists(outfname)
ExistsNever(fs, path) == FALSE
Exists(fs, path) == path \in DOMAIN fs

\* except OSError as err: only ENOENT becomes a RendererError, any other
\* errno is raised again.
LaunchErrorWrapNone(command, errno) ==
    [class |-> "OSError", fmt |-> "", args |-> <<>>, tail |-> errno]
LaunchError(command, errno) ==
    IF errno # ENOENT
    THEN [class |-> "OSError", fmt |-> "", args |-> <<>>, tail |-> errno]
    ELSE [class |-> "RendererError", fmt |-> "command %r cannot be run",
          args |-> <<Repr(command)>>, tail |-> ""]

\* 'error while running %r\n\n' % command + serr: serr is a str under
\* Python 2 and bytes under Python 3, where str + bytes raises TypeError.
FailureError(pyv, command, serr) ==
    IF pyv = 2
    THEN [class |-> "RendererError", fmt |-> "error while running %r\n\n",
          args |-> <<Repr(command)>>, tail |-> serr]
    ELSE [class |-> "TypeError",
          fmt |-> "can only concatenate str (not \"bytes\") to str",
          args |-> <<>>, tail |-> ""]

\* The whole of render_image: the outcome and the filesystem it leaves.
render_image(pyv, b, content, command, env, fs) ==
    LET gn == generate_name(b, content)
        opened == WriteFile(fs, gn.outfname, "partial")
    IN  IF Exists(fs, gn.outfname)
        THEN [result |-> "return", refname |-> gn.refname, error |-> NoError,
              launched |-> FALSE, fs |-> fs]
        ELSE IF env.launch # "ok"
        THEN [result |-> "raise", refname |-> NoRef,
              error |-> LaunchError(command, env.launch),
              launched |-> FALSE, fs |-> opened]
        ELSE IF env.returncode # 0
        THEN [result |-> "raise", refname |-> NoRef,
              error |-> FailureError(pyv, command, env.serr),
              launched |-> TRUE, fs |-> opened]
        ELSE [result |-> "return", refname |-> gn.refname, error |-> NoError,
              launched |-> TRUE, fs |-> WriteFile(fs, gn.outfname, "image")]

\* The record of a call of render_image made with the filesystem fs, after
\* the call recorded in before.
NoCall == [called |-> FALSE]
NoEnv == [launch |-> None, returncode |-> 0, serr |-> ""]
Repeats(before, b, content) ==
    before.called /\ before.self = b.name /\ before.content = content
SelfOf(call) == CHOOSE b \in Builders : b.name = call.self
CallRecord(b, content, command, env, r, fs, before) ==
    [called |-> TRUE, self |-> b.name, content |-> content, command |-> command,
     env |-> IF r.launched \/ r.result = "raise" THEN env ELSE NoEnv, result |-> r.result, refname |-> r.refname, error |-> r.error,
     launched |-> r.launched, outfname |-> generate_name(b, content).outfname,
     existed |-> generate_name(b, content).outfname \in DOMAIN fs,
     repeat |-> Repeats(before, b, content),
     prevresult |-> IF Repeats(before, b, content) THEN before.result ELSE None,
     prevrefname |-> IF Repeats(before, b, content) THEN before.refname ELSE NoRef]

----------------------------------------------------------------------------
(* The image renderer on its own: render_image called with any builder,    *)
(* diagram text and command, the renderer behaving in any way.             *)

NTexts == 2
Texts == {<<64 + i, 10>> : i \in 1..NTexts}
\* The command render passes with a text is the one of the text's backend.
CommandOf(content) ==
    IF content[1] % 2 = 0 THEN <<"dot">>
    ELSE <<"plantuml", "-pipe", "-charset", "utf-8">>

NoNode == [alt |-> None]
NoConfig == [sadisplay_default_render |-> None]
NoVisit == [called |-> FALSE]
NoRun == [called |-> FALSE]
NoApps == <<>>

InitImage ==
    /\ py \in {2, 3}
    /\ files = <<>>
    /\ ri = NoCall
    /\ node = NoNode
    /\ config = NoConfig
    /\ visit = NoVisit
    /\ drun = NoRun
    /\ apps = NoApps

RenderImageCall ==
    \E b \in Builders, content \in Texts, env \in Envs :
      \E r \in {render_image(py, b, content, CommandOf(content), env, files)} :
        LET command == CommandOf(content)
        IN  /\ files' = r.fs
            /\ ri' = CallRecord(b, content, command, env, r, files, ri)
            /\ UNCHANGED <<py, node, config, visit, drun, apps>>

NextImage == RenderImageCall

SpecImage == InitImage /\ [][NextImage]_vars

\* C1: a render_image call that repeats the call before it (same builder,
\* same diagram text) returns the reference path named by the text's hash,
\* the one the call before returned if it returned, and does not launch the
\* renderer.
C1_CacheHit ==
    (ri.called /\ ri.repeat) =>
        /\ ri.result = "return"
        /\ ~ri.launched
        /\ ri.refname = generate_name(SelfOf(ri), ri.content).refname
        /\ (ri.prevresult = "return" => ri.refname = ri.prevrefname)

C1_Witness ==
    ri.called /\ ri.repeat /\ ri.prevresult = "return" /\ ri.result = "return"

\* C3 (as claimed): with no output file yet and a renderer that exits
\* non-zero, render_image raises RendererError with the error-stream text in
\* its message.
C3_RenderFailed ==
    (ri.called /\ ~ri.existed /\ ri.env.launch = "ok" /\ ri.env.returncode # 0) =>
        /\ ri.result = "raise"
        /\ ri.error.class = "RendererError"
        /\ ri.error.tail = ri.env.serr

\* C7 (as claimed): with no output file yet, every failure to launch the
\* renderer raises RendererError naming the command.
C7_EveryLaunchFailure ==
    (ri.called /\ ~ri.existed /\ ri.env.launch # "ok") =>
        /\ ri.result = "raise"
        /\ ri.error.class = "RendererError"
        /\ ri.error.args = <<Repr(ri.command)>>

\* C7 (amended): with no output file yet, a launch that fails with ENOENT
\* raises RendererError naming the command; a launch that fails with any
\* other errno raises that OSError unchanged.
C7_NotFound ==
    (ri.called /\ ~ri.existed /\ ri.env.launch # "ok") =>
        /\ ri.result = "raise"
        /\ ~ri.launched
        /\ IF ri.env.launch = ENOENT
           THEN /\ ri.error.class = "RendererError"
                /\ ri.error.args = <<Repr(ri.command)>>
           ELSE /\ ri.error.class = "OSError"
                /\ ri.error.tail = ri.env.launch

C7_Witness ==
    /\ ri.called /\ ~ri.existed /\ ri.env.launch = ENOENT
    /\ ri.error.class = "RendererError"

\* C10 (as claimed): whenever render_image returns a reference path, the
\* output file holds the output of a renderer run that exited with status 0.
C10_ReturnedFileIsImage ==
    (ri.called /\ ri.result = "return") =>
        /\ ri.outfname \in DOMAIN files
        /\ files[ri.outfname] = "image"

----------------------------------------------------------------------------
(* render: introspection, filtering, backend selection                     *)

\* The importable modules and what dir(module) lists, in dir's order. An
\* attribute is an object: its __name__ (None when it has none), whether
\* repr(m) succeeds, and whether the description library describes it.
ClassA == [id |-> 1, name |-> "A", reprok |-> TRUE, entity |-> TRUE]
ClassB == [id |-> 2, name |-> "B", reprok |-> TRUE, entity |-> TRUE]
ClassC == [id |-> 3, name |-> "C", reprok |-> TRUE, entity |-> TRUE]
Broken == [id |-> 4, name |-> "broken", reprok |-> FALSE, entity |-> FALSE]
Engine == [id |-> 5, name |-> None, reprok |-> TRUE, entity |-> FALSE]
Helper == [id |-> 6, name |-> "helper", reprok |-> TRUE, entity |-> FALSE]

Importable(module_name) == module_name \in {"m1", "m2"}
Dir(module_name) ==
    IF module_name = "m1" THEN <<ClassA, ClassB, Broken, Engine>>
    ELSE <<ClassA, ClassC, Helper>>

\* for attr in dir(module): the attributes whose repr does not raise.
RECURSIVE Attrs(_)
Attrs(attrs) ==
    IF attrs = <<>> THEN <<>>
    ELSE IF Head(attrs).reprok THEN <<Head(attrs)>> \o Attrs(Tail(attrs))
    ELSE Attrs(Tail(attrs))

\* for module_name in node['module']: all_names, or the ImportError of the
\* first module that cannot be imported.
RECURSIVE Introspect(_, _)
Introspect(modules, all_names) ==
    IF modules = <<>> THEN [error |-> NoError, all_names |-> all_names]
    ELSE IF ~Importable(Head(modules))
    THEN [error |-> [class |-> "ImportError", fmt |-> "No module named %r",
                     args |-> <<Repr(<<Head(modules)>>)>>, tail |-> ""],
          all_names |-> all_names]
    ELSE Introspect(Tail(modules), all_names \o Attrs(Dir(Head(modules))))

\* i.__name__ raises AttributeError for an object without a name.
HasName(i) == i.name # None

RECURSIVE ExcludeLoopKeepsNameless(_, _)
ExcludeLoopKeepsNameless(all_names, exclude) ==
    IF all_names = <<>> THEN <<>>
    ELSE IF ~HasName(Head(all_names))
            \/ \A k \in DOMAIN exclude : exclude[k] # Head(all_names).name
    THEN <<Head(all_names)>> \o ExcludeLoopKeepsNameless(Tail(all_names), exclude)
    ELSE ExcludeLoopKeepsNameless(Tail(all_names), exclude)

RECURSIVE ExcludeLoop(_, _)
ExcludeLoop(all_names, exclude) ==
    IF all_names = <<>> THEN <<>>
    ELSE IF HasName(Head(all_names))
            /\ \A k \in DOMAIN exclude : exclude[k] # Head(all_names).name
    THEN <<Head(all_names)>> \o ExcludeLoop(Tail(all_names), exclude)
    ELSE ExcludeLoop(Tail(all_names), exclude)

RECURSIVE IncludeLoop(_, _)
IncludeLoop(all_names, include) ==
    IF all_names = <<>> THEN <<>>
    ELSE IF HasName(Head(all_names))
            /\ \E k \in DOMAIN include : include[k] = Head(all_names).name
    THEN <<Head(all_names)>> \o IncludeLoop(Tail(all_names), include)
    ELSE IncludeLoop(Tail(all_names), include)

\* names, from all_names and the node's exclude and include.
Filter(all_names, include, exclude) ==
    IF TruthyList(exclude) THEN ExcludeLoop(all_names, exclude)
    ELSE IF TruthyList(include) THEN IncludeLoop(all_names, include)
    ELSE all_names

\* sadisplay.describe(names) followed by sadisplay.plantuml or sadisplay.dot:
\* the bytes of the diagram text, the backend's opening byte and then the
\* described entities.
RECURSIVE Describe(_)
Describe(names) ==
    IF names = <<>> THEN <<>>
    ELSE IF Head(names).entity THEN <<Head(names).id>> \o Describe(Tail(names))
    ELSE Describe(Tail(names))

plantuml(desc) == <<64>> \o desc
dot(desc) == <<100>> \o desc

\* A configuration value holding a command is a str or a list.
IsStr(v) == v.type = "str"

generate_plantuml_args(cfg) ==
    (IF IsStr(cfg.plantuml) THEN <<cfg.plantuml.str>> ELSE cfg.plantuml.list)
        \o <<"-pipe", "-charset", "utf-8">>

generate_graphviz_args(cfg) ==
    IF IsStr(cfg.graphviz) THEN <<cfg.graphviz.str>> ELSE cfg.graphviz.list

\* render = node['render'] or self.builder.config.sadisplay_default_render
Backend(n, cfg) == IF Truthy(n.render) THEN n.render ELSE cfg.sadisplay_default_render

\* With neither branch taken, content is not bound when render_image's
\* arguments are evaluated.
UnboundLocalError ==
    [class |-> "UnboundLocalError",
     fmt |-> "local variable 'content' referenced before assignment",
     args |-> <<>>, tail |-> ""]

\* The whole of render: its outcome, what it passed to the description
\* library, what render_image did, and the filesystem it leaves.
render(pyv, b, cfg, n, env, fs) ==
    LET intro == Introspect(n.module, <<>>)
        names == Filter(intro.all_names, n.include, n.exclude)
        desc == Describe(names)
        backend == Backend(n, cfg)
        content == IF backend = "plantuml" THEN plantuml(desc) ELSE dot(desc)
        command == IF backend = "plantuml" THEN generate_plantuml_args(cfg)
                   ELSE generate_graphviz_args(cfg)
        r == render_image(pyv, b, content, command, env, fs)
    IN  IF intro.error # NoError
        THEN [result |-> "raise", refname |-> NoRef, error |-> intro.error,
              described |-> FALSE, all_names |-> <<>>, names |-> <<>>,
              launched |-> FALSE, command |-> <<>>, fs |-> fs]
        ELSE IF backend \notin {"plantuml", "graphviz"}
        THEN [result |-> "raise", refname |-> NoRef, error |-> UnboundLocalError,
              described |-> TRUE, all_names |-> intro.all_names, names |-> names,
              launched |-> FALSE, command |-> <<>>, fs |-> fs]
        ELSE [result |-> r.result, refname |-> r.refname, error |-> r.error,
              described |-> TRUE, all_names |-> intro.all_names, names |-> names,
              launched |-> r.launched, command |-> command, fs |-> r.fs]

----------------------------------------------------------------------------
(* The output visitors                                                     *)

\* except Exception: every class the pipeline raises derives from Exception
\* (RendererError through SphinxError, UnboundLocalError through NameError).
ExceptOnlyRendererError(class) == class = "RendererError"
ExceptException(class) ==
    class \in {"ImportError", "UnboundLocalError", "RendererError", "OSError",
               "TypeError"}

\* self.encode(text): the translator's escaping of a value for its format.
Encode(format, v) == [escaped_for |-> format, value |-> v]

\* node['alt'] or node['module']
AltOrModule(n) ==
    IF Truthy(n.alt) THEN [type |-> "str", str |-> n.alt, list |-> <<>>]
    ELSE [type |-> "list", str |-> "", list |-> n.module]

NoText == [type |-> "none", str |-> "", list |-> <<>>]

\* The pieces appended to self.body.
Markup(format, tag, refname, text) ==
    [tag |-> tag, ref |-> Encode(format, refname), text |-> Encode(format, text)]

\* template: '<a href="%s">%s</a>\n' if node['link'] else '<img src="%s" alt="%s" />\n'
HtmlTemplateSwapped(link) == IF link THEN "img" ELSE "a"
HtmlTemplate(link) == IF link THEN "a" ELSE "img"

HtmlMarkup(n, refname) ==
    <<Markup("html", "p class=sadisplay", NoRef, NoText),
      Markup("html", HtmlTemplate(n.link), refname, AltOrModule(n)),
      Markup("html", "/p", NoRef, NoText)>>

LatexMarkup(n, refname) ==
    <<Markup("latex", "includegraphics", refname, NoText)>>

\* 'sadisplay render error: %s' % err, passed to warn
Warning(err) == [fmt |-> "sadisplay render error: %s", err |-> err]

\* The record of a visitor's call: the body it was given and the body it
\* left, the warnings and log records it emitted, whether it raised
\* nodes.SkipNode, the exception it let through, and what render did.
VisitRecord(name, before, r, caught, logs, markup, fs) ==
    [called |-> TRUE, visitor |-> name, before |-> before,
     body |-> IF r.result = "return" THEN before \o markup ELSE before,
     warnings |-> IF r.result = "raise" /\ caught THEN <<Warning(r.error)>> ELSE <<>>,
     logged |-> IF r.result = "raise" /\ caught /\ logs THEN <<r.error>> ELSE <<>>,
     skipnode |-> r.result = "return" \/ caught,
     propagated |-> IF r.result = "raise" /\ ~caught THEN r.error ELSE NoError,
     result |-> r.result, refname |-> r.refname, error |-> r.error,
     described |-> r.described, all_names |-> r.all_names, names |-> r.names,
     launched |-> r.launched, command |-> r.command, created |-> r.fs # fs]

\* What the translator has put in self.body before it reaches the node.
Heading == Markup("any", "h1", NoRef, [type |-> "str", str |-> "Models", list |-> <<>>])
Bodies == {<<>>, <<Heading>>}

\* The nodes SadisplayDirective.run can produce (include and exclude are
\* never both non-empty).
Nodes ==
    {[alt |-> a, link |-> l, render |-> r, module |-> m,
      include |-> f[1], exclude |-> f[2]] :
        a \in {None, "", "Diagram"}, l \in BOOLEAN,
        r \in {None, "plantuml", "graphviz", "svg"},
        m \in {<<"m1">>, <<"m1", "m2">>, <<"m1", "nomod">>},
        f \in {<< <<>>, <<>> >>, << <<"A", "B">>, <<>> >>, << <<>>, <<"C">> >>}}

Str(x) == [type |-> "str", str |-> x, list |-> <<>>]
List(x) == [type |-> "list", str |-> "", list |-> x]

\* conf.py: the commands as a str or as a list, and the default backend.
Configs ==
    {[plantuml |-> Str("plantuml"), graphviz |-> Str("dot"),
      sadisplay_default_render |-> "graphviz"],
     [plantuml |-> List(<<"java", "-jar", "plantuml.jar">>),
      graphviz |-> List(<<"dot", "-Tpng">>),
      sadisplay_default_render |-> "plantuml"],
     [plantuml |-> Str("plantuml"), graphviz |-> List(<<"dot", "-Tpng">>),
      sadisplay_default_render |-> "svg"]}

InitVisit ==
    /\ py \in {2, 3}
    /\ files = <<>>
    /\ ri = NoCall
    /\ node \in Nodes
    /\ config \in Configs
    /\ visit = NoVisit
    /\ drun = NoRun
    /\ apps = NoApps

html_visit ==
    \E before \in Bodies, env \in Envs :
      \E r \in {render(py, HtmlBuilder, config, node, env, files)} :
        LET caught == ExceptException(r.error.class)
        IN  /\ files' = r.fs
            /\ visit' = VisitRecord("html", before, r, caught, TRUE,
                                    HtmlMarkup(node, r.refname), files)
            /\ UNCHANGED <<py, ri, node, config, drun, apps>>

latex_visit ==
    \E before \in Bodies, env \in Envs :
      \E r \in {render(py, LatexBuilder, config, node, env, files)} :
        LET caught == ExceptException(r.error.class)
        IN  /\ files' = r.fs
            /\ visit' = VisitRecord("latex", before, r, caught, FALSE,
                                    LatexMarkup(node, r.refname), files)
            /\ UNCHANGED <<py, ri, node, config, drun, apps>>

NextVisit == html_visit \/ latex_visit

SpecVisit == InitVisit /\ [][NextVisit]_vars

Failed == visit.called /\ visit.result = "raise"
Succeeded == visit.called /\ visit.result = "return"
Appended == SubSeq(visit.body, Len(visit.before) + 1, Len(visit.body))
Format == visit.visitor

\* C2: whatever error render raises for a node, the visitor lets none
\* through: it emits a build warning carrying the error, leaves the body as
\* it was and raises SkipNode.
C2_ErrorsBecomeWarnings ==
    Failed =>
        /\ visit.propagated = NoError
        /\ visit.warnings = <<Warning(visit.error)>>
        /\ visit.body = visit.before
        /\ visit.skipnode

C2_Witness ==
    /\ Failed /\ visit.visitor = "latex" /\ visit.error.class = "ImportError"
    /\ visit.before # <<>> /\ visit.warnings # <<>>

ConfigurationErrors == {"SphinxWarning", "ConfigError", "ExtensionError"}

\* C4 (as claimed): with a backend that is neither plantuml nor graphviz,
\* render raises a configuration error, launches no renderer and creates no
\* file, and the visitor emits a warning and no markup.
C4_UnsupportedBackend ==
    (visit.called /\ Backend(node, config) \notin {"plantuml", "graphviz"}) =>
        /\ visit.result = "raise"
        /\ visit.error.class \in ConfigurationErrors
        /\ ~visit.launched /\ ~visit.created
        /\ visit.warnings # <<>>
        /\ visit.body = visit.before

\* What the filter is to keep, stated on the candidates.
Named(i) == i.name # None
InList(x, l) == \E k \in DOMAIN l : l[k] = x
KeptByExclude(i) == Named(i) /\ ~InList(i.name, node.exclude)
KeptByInclude(i) == Named(i) /\ InList(i.name, node.include)
KeepAll(i) == TRUE

\* C6: the objects passed to the description library are, in the
\* candidates' order, the named candidates not in exclude when exclude is
\* non-empty, else the named candidates in include when include is
\* non-empty, else all the candidates.
C6_Filtering ==
    (visit.called /\ visit.described) =>
        visit.names =
            IF node.exclude # <<>> THEN SelectSeq(visit.all_names, KeptByExclude)
            ELSE IF node.include # <<>> THEN SelectSeq(visit.all_names, KeptByInclude)
            ELSE SelectSeq(visit.all_names, KeepAll)

C6_Witness ==
    /\ visit.called /\ visit.described
    /\ node.exclude = <<"C">> /\ node.module = <<"m1", "m2">>
    /\ visit.names = <<ClassA, ClassB, ClassA, Helper>>
    /\ visit.all_names = <<ClassA, ClassB, Engine, ClassA, ClassC, Helper>>

HyperlinkTags == {"a"}
ImageTags == {"img", "includegraphics"}

\* C8 (as claimed): on success either visitor appends markup referencing
\* the returned path, a hyperlink if the node's link flag is set and an
\* embedded image if not, with alt (else the module list) as its text.
C8_BothVisitors ==
    Succeeded =>
        \E k \in DOMAIN Appended :
            /\ Appended[k].ref = Encode(Format, visit.refname)
            /\ Appended[k].tag \in (IF node.link THEN HyperlinkTags ELSE ImageTags)
            /\ Appended[k].text = Encode(Format, AltOrModule(node))

\* C8 (amended): on success html_visit appends a paragraph holding a
\* hyperlink (link set) or an image (link unset) that references the
\* returned path and carries alt, or the module list when alt is absent or
\* empty; latex_visit appends one includegraphics of the returned path,
\* whatever the link flag, with no alternate text.
C8_PerFormat ==
    Succeeded =>
        /\ SubSeq(visit.body, 1, Len(visit.before)) = visit.before
        /\ visit.skipnode
        /\ IF visit.visitor = "html"
           THEN /\ Len(Appended) = 3
                /\ Appended[1].tag = "p class=sadisplay"
                /\ Appended[3].tag = "/p"
                /\ Appended[2].ref = Encode("html", visit.refname)
                /\ Appended[2].tag = (IF node.link THEN "a" ELSE "img")
                /\ Appended[2].text =
                       Encode("html", IF node.alt \notin {None, ""}
                                      THEN [type |-> "str", str |-> node.alt, list |-> <<>>]
                                      ELSE [type |-> "list", str |-> "", list |-> node.module])
           ELSE /\ Len(Appended) = 1
                /\ Appended[1].tag = "includegraphics"
                /\ Appended[1].ref = Encode("latex", visit.refname)
                /\ Appended[1].text = Encode("latex", NoText)

C8_Witness ==
    /\ Succeeded /\ visit.visitor = "html" /\ node.link /\ node.alt = "Diagram"
    /\ visit.before # <<>> /\ visit.launched

----------------------------------------------------------------------------
(* SadisplayDirective.run                                                  *)
(* Here a str is a sequence of one-character strings, and an option of     *)
(* self.options is present with a value or absent.                         *)

Absent == [present |-> FALSE, val |-> <<>>]
Present(v) == [present |-> TRUE, val |-> v]

\* val.split(','): the pieces between the commas, cur being the piece read
\* so far.
RECURSIVE Split(_, _)
Split(val, cur) ==
    IF val = <<>> THEN <<cur>>
    ELSE IF Head(val) = "," THEN <<cur>> \o Split(Tail(val), <<>>)
    ELSE Split(Tail(val), Append(cur, Head(val)))

\* i.strip()
RECURSIVE LStrip(_)
LStrip(i) == IF i # <<>> /\ Head(i) = " " THEN LStrip(Tail(i)) ELSE i

RECURSIVE RStrip(_)
RStrip(i) ==
    IF i # <<>> /\ i[Len(i)] = " " THEN RStrip(SubSeq(i, 1, Len(i) - 1)) ELSE i

Strip(i) == RStrip(LStrip(i))

\* tolist(self.options.get(name, default)): the default is None or ''.
tolist(opt) ==
    IF opt.present /\ opt.val # <<>>
    THEN [k \in 1..Len(Split(opt.val, <<>>)) |-> Strip(Split(opt.val, <<>>)[k])]
    ELSE <<>>

\* if node['include'] and node['exclude']
EitherDefined(include, exclude) == TruthyList(include) \/ TruthyList(exclude)
BothDefined(include, exclude) == TruthyList(include) /\ TruthyList(exclude)

\* The whole of run: the node list it returns or the error it raises.
run(options) ==
    LET n == [alt |-> options.alt, link |-> options.link.present,
              render |-> options.render, module |-> tolist(options.module),
              include |-> tolist(options.include),
              exclude |-> tolist(options.exclude)]
    IN  IF BothDefined(n.include, n.exclude)
        THEN [result |-> "raise", returned |-> <<>>,
              error |-> [class |-> "SphinxWarning",
                         fmt |-> "sadisplay directive error - both defined :include: and :exclude:",
                         args |-> <<>>, tail |-> ""]]
        ELSE [result |-> "return", returned |-> <<n>>, error |-> NoError]

MaxLen == 2
Chars == {"A", ",", " "}
Strings == UNION {[1..k -> Chars] : k \in 0..MaxLen}
ListOptions == {Absent} \cup {Present(v) : v \in Strings}

Options ==
    [alt : {Absent, Present(<<"D">>)},
     link : {Absent, Present(<<>>)},
     render : {Absent, Present(<<"d", "o", "t">>)},
     module : {Absent, Present(<<"m">>), Present(<<"m", ",", " ", "n">>)},
     include : ListOptions,
     exclude : ListOptions]

\* A directive occurrence in the source, not yet run.
InitDirective ==
    /\ py \in {2, 3}
    /\ files = <<>>
    /\ ri = NoCall
    /\ node = NoNode
    /\ config = NoConfig
    /\ visit = NoVisit
    /\ drun \in {[called |-> FALSE, options |-> o] : o \in Options}
    /\ apps = NoApps

Run ==
    /\ ~drun.called
    /\ LET r == run(drun.options)
       IN  drun' = [called |-> TRUE, options |-> drun.options, result |-> r.result,
                    returned |-> r.returned, error |-> r.error]
    /\ UNCHANGED <<py, files, ri, node, config, visit, apps>>

NextDirective == Run

SpecDirective == InitDirective /\ [][NextDirective]_vars

\* An option parses to a non-empty list when it is present with a non-empty
\* value (splitting a non-empty str gives at least one piece).
NonEmptyOption(opt) == opt.present /\ opt.val # <<>>
Commas(val) == Cardinality({k \in DOMAIN val : val[k] = ","})

\* The list parsed from an option: empty for an absent or empty option, else
\* one item per comma-separated piece, none with a comma or with a space at
\* either end.
IsParsed(list, opt) ==
    IF ~NonEmptyOption(opt) THEN list = <<>>
    ELSE /\ Len(list) = Commas(opt.val) + 1
         /\ \A k \in DOMAIN list :
                /\ \A j \in DOMAIN list[k] : list[k][j] # ","
                /\ list[k] # <<>> => (list[k][1] # " " /\ list[k][Len(list[k])] # " ")

\* C5: run raises a configuration error and returns no node when include
\* and exclude both parse to non-empty lists; otherwise it returns exactly
\* one node, carrying the parsed options.
C5_IncludeExclude ==
    drun.called =>
        IF NonEmptyOption(drun.options.include) /\ NonEmptyOption(drun.options.exclude)
        THEN /\ drun.result = "raise"
             /\ drun.error.class \in ConfigurationErrors
             /\ drun.returned = <<>>
        ELSE /\ drun.result = "return"
             /\ Len(drun.returned) = 1
             /\ drun.returned[1].alt = drun.options.alt
             /\ drun.returned[1].link = drun.options.link.present
             /\ drun.returned[1].render = drun.options.render
             /\ IsParsed(drun.returned[1].module, drun.options.module)
             /\ IsParsed(drun.returned[1].include, drun.options.include)
             /\ IsParsed(drun.returned[1].exclude, drun.options.exclude)

C5_Witness ==
    /\ drun.called /\ drun.result = "raise"
    /\ drun.options.include = Present(<<" ", "A">>)
    /\ drun.options.exclude = Present(<<",">>)

----------------------------------------------------------------------------
(* setup                                                                   *)

\* app.add_config_value(name, ...): the host raises ExtensionError for a
\* name that is already registered, as setup's own except clauses expect.
add_config_value(values, name) ==
    [raised |-> name \in values, values |-> values \cup {name}]

\* The whole of setup(app) on an application in state a.
setup(a) ==
    LET c1 == add_config_value(a.values, "plantuml")
        c2 == add_config_value(c1.values, "graphviz")
        c3 == add_config_value(c2.values, "sadisplay_default_render")
    IN  IF c3.raised
        THEN [a EXCEPT !.values = c2.values, !.calls = @ + 1, !.errors = @ + 1]
        ELSE [a EXCEPT !.values = c3.values,
                       !.nodes = IF a.sanode_registered THEN @ ELSE @ + 1,
                       !.sanode_registered = TRUE,
                       !.directives = @ + 1,
                       !.calls = @ + 1]

NApps == 3
MaxSetupCalls == 3

\* A fresh application, with the configuration values other extensions
\* have registered before this one is set up.
NewApps ==
    {[values |-> v, nodes |-> 0, sanode_registered |-> FALSE, directives |-> 0,
      calls |-> 0, errors |-> 0] : v \in SUBSET {"plantuml", "graphviz"}}

InitSetup ==
    /\ py \in {2, 3}
    /\ files = <<>>
    /\ ri = NoCall
    /\ node = NoNode
    /\ config = NoConfig
    /\ visit = NoVisit
    /\ drun = NoRun
    /\ apps \in [1..NApps -> NewApps]

Setup ==
    \E app \in DOMAIN apps :
        /\ apps[app].calls < MaxSetupCalls
        /\ apps' = [apps EXCEPT ![app] = setup(apps[app])]
        /\ UNCHANGED <<py, files, ri, node, config, visit, drun>>

NextSetup == Setup

SpecSetup == InitSetup /\ [][NextSetup]_vars

\* C9 (as claimed): on every application set up at least once, SaNode is
\* registered exactly once and no setup call has raised.
C9_Idempotent ==
    \A app \in DOMAIN apps :
        apps[app].calls >= 1 =>
            /\ apps[app].nodes = 1
            /\ apps[app].errors = 0

====
